---- MODULE Spec2Model ----
(***************************************************************************)
(* Model of scripts/deploy.js: the configuration loading of the script     *)
(* body, the three Listr tasks (Build Checkout, Pre-Deploy Setup, Deploy   *)
(* Checkout), the WebDAVHelper / NodeHelper promise wrappers and the       *)
(* finished banner.                                                        *)
(*                                                                         *)
(* One action is one turn of the Node event loop: the script body, or the  *)
(* completion callback of one external operation (the build process, a     *)
(* mkdir, a readdir, a writeFile) together with every promise reaction     *)
(* (microtask) it triggers, since those run to completion before the next  *)
(* callback is delivered.                                                  *)
(***************************************************************************)
EXTENDS Integers, Sequences, FiniteSets, TLC

VARIABLES
  env,          \* process.argv[2]; "" models an absent argument
  cfgFile,      \* what the path env.<env>.json names on disk, and the other
                \* module require() finds for it when it names no file
  cfgAtStart,   \* that file as it was when the process started
  cfgReads,     \* number of times the script tried to load that file
  config,       \* the module-level `config` object
  fsWrites,     \* number of local files created or changed by the script
  stage,        \* state of the whole pipeline
  taskP,        \* state of the promise of each Listr task
  pending,      \* the single outstanding non-upload external operation
  buildRuns,    \* number of times the build process was started
  ioErrors,     \* the external operations that completed with an error
  timestamp,    \* the module-level `timestamp`
  ctx,          \* the Listr context object
  mkdirIssued,  \* remote paths for which wfs.mkdir was called
  remoteDirs,   \* remote directories whose mkdir succeeded
  listIssued,   \* local directories for which fs.readdir was called
  uploads,      \* per batch: the per-file promises made by `uploader`
  allP,         \* per batch: the promise of Promise.all(promises)
  batchP,       \* per batch: the promise returned by UploadFiles
  console,      \* messages printed by the script
  scriptRef,    \* the identifier printed in the banner's script reference
  earlier,      \* clock reading and identifier of an earlier run's Pre-Deploy
  later         \* clock reading and identifier of a later run's Pre-Deploy

vars == <<env, cfgFile, cfgAtStart, config, fsWrites, stage, taskP, pending,
          buildRuns, ioErrors, timestamp, ctx, mkdirIssued, remoteDirs,
          listIssued, uploads, allP, batchP, console, scriptRef, cfgReads,
          earlier, later>>

-----------------------------------------------------------------------------
(* Bounds and input domains *)

\* longest directory listing returned by fs.readdir
MaxFiles == 3

\* file names are sequences of characters: ".h", "a.j", "b.c" and "s", in the
\* order in which fs.readdir hands them to its callback (ascending by code
\* unit: "." sorts before the letters)
NameOrder == << <<".", "h">>, <<"a", ".", "j">>, <<"b", ".", "c">>, <<"s">> >>

Names == { NameOrder[i] : i \in 1..Len(NameOrder) }

Increasing(f) == \A i, j \in DOMAIN f : i < j => f[i] < f[j]

\* fs.readdir returns the distinct entry names of a directory: any choice of
\* at most MaxFiles of the names, in enumeration order
Listings ==
  UNION { { [i \in 1..n |-> NameOrder[f[i]]] :
              f \in { g \in [1..n -> 1..Len(NameOrder)] : Increasing(g) } } :
          n \in 0..MaxFiles }

\* an instant is a day number (days since 1970-01-01, UTC) and the
\* milliseconds since midnight of that day
At(day, ms) == [day |-> day, ms |-> ms]

\* day numbers of 2020-01-01 (fifty years, twelve of them leap years, after
\* 1970-01-01), 2020-01-31, 2020-12-31 and 9999-12-31 (8030 years, 1947 of
\* them leap years, less one day)
Day2020 == 50 * 365 + 12

EndOfJanuary == Day2020 + 30

EndOf2020 == Day2020 + 365

EndOf9999 == 8030 * 365 + 1947 - 1

\* instants at which Pre-Deploy may read the clock in the modelled run
Times == { At(Day2020, 1000), At(Day2020, 1999), At(Day2020, 3723004) }

\* clock readings of two runs: within one second, and on both sides of a
\* change of second, minute, hour, day, month, year and of the year 10000
Instants ==
  { At(Day2020, 1000), At(Day2020, 1999), At(Day2020, 2000),
    At(Day2020, 59999), At(Day2020, 60000),
    At(Day2020, 3599999), At(Day2020, 3600000),
    At(Day2020, 86399999), At(Day2020 + 1, 0),
    At(EndOfJanuary, 86399999), At(EndOfJanuary + 1, 0),
    At(EndOf2020, 86399999), At(EndOf2020 + 1, 0),
    At(EndOf9999, 86399999), At(EndOf9999 + 1, 0) }

Envs == { "", "sandbox" }

Keys == { "WEBDAV_STOREHASH", "WEBDAV_USERNAME", "WEBDAV_PASSWORD" }

\* a JSON object over the credential keys: absent keys are not in the domain
Objects == UNION { [K -> {"", "v"}] : K \in SUBSET Keys }

EmptyObj == [k \in {} |-> ""]

\* the value null, which require() returns for a file holding the JSON text
\* `null` (and undefined, which a script module may export); it is no object
\* and reading a property of it throws
Null == [null |-> "null"]

\* require() finds no other module for the path, or loading it throws
NoModule == [none |-> "none"]

\* what a module found in place of the file exports
Exports == {Null} \cup Objects

\* the path names a file: one that is not valid JSON, one holding the JSON
\* value null, or one holding a JSON object over the credential keys;
\* require() loads the file itself and looks no further
Files ==
  { [kind |-> "unparsable", fields |-> EmptyObj, alt |-> NoModule],
    [kind |-> "null", fields |-> EmptyObj, alt |-> NoModule] }
  \cup { [kind |-> "json", fields |-> o, alt |-> NoModule] : o \in Objects }

\* the path names nothing or a directory: require() goes on to the path with
\* .js, .json or .node appended and, for a directory, to its package.json
\* main and its index.js, index.json or index.node; `alt` is what the first
\* of these that exists exports
NotFiles ==
  { [kind |-> k, fields |-> EmptyObj, alt |-> a] :
      k \in {"absent", "directory"}, a \in {NoModule} \cup Exports }

CfgFiles == Files \cup NotFiles

Batches == { "root", "static" }

Tasks == { "Build Checkout", "Pre-Deploy Setup", "Deploy Checkout" }

Undefined == <<>>

NoErr == [kind |-> "none", file |-> <<>>]

\* no Pre-Deploy of another run is being considered
NoRun == [read |-> FALSE, t |-> [day |-> 0, ms |-> 0], id |-> <<>>]

-----------------------------------------------------------------------------
(* Configuration loading, lines 49-63 *)

\* !config.X : true for an absent key and for the empty string
Falsy(obj, k) == k \notin DOMAIN obj \/ obj[k] = ""

MissingCredentials(obj) ==
  Falsy(obj, "WEBDAV_STOREHASH") \/ Falsy(obj, "WEBDAV_USERNAME")
    \/ Falsy(obj, "WEBDAV_PASSWORD")

\* require() throws when the file is not valid JSON, and when the path names
\* no file and no other module is found for it (or loading that module throws)
RequireThrows(f) ==
  IF f.kind \in {"absent", "directory"}
  THEN f.alt = NoModule
  ELSE f.kind \in {"unparsable", "truncated"}

\* the value require() returns when it does not throw
Required(f) ==
  CASE f.kind = "json" -> f.fields
    [] f.kind = "null" -> Null
    [] OTHER -> f.alt

\* config.WEBDAV_STOREHASH throws a TypeError when config is null
CredentialsTestThrows(f) == ~RequireThrows(f) /\ Required(f) = Null

\* the try block covers the require and the credentials test: the catch
\* block is entered when either throws
TryThrows(f) == RequireThrows(f) \/ CredentialsTestThrows(f)

sampleFile ==
  [k \in {"WEBDAV_STOREHASH", "WEBDAV_USERNAME", "WEBDAV_PASSWORD"} |-> ""]

\* fs.writeFileSync opens the path (creating the file, or emptying the one
\* that is there), writes the text and closes:
\*   "written"  the whole text was written
\*   "refused"  the open failed (no parent directory, a dangling link, no
\*              permission); a directory is always refused
\*   "cut"      the open succeeded and the write failed (no space, quota,
\*              I/O error)
WriteOutcomes == {"written", "refused", "cut"}

WriteFileSyncThrows(f, outcome) == f.kind = "directory" \/ outcome # "written"

\* what the path names after fs.writeFileSync(path, JSON.stringify(obj, null, 2)):
\* a refused write changes nothing, a cut write leaves a file holding a
\* proper prefix of the text (possibly nothing), which is not valid JSON
AfterWriteFileSync(f, obj, outcome) ==
  IF f.kind = "directory" \/ outcome = "refused" THEN f
  ELSE IF outcome = "cut" THEN [f EXCEPT !.kind = "truncated", !.fields = EmptyObj]
  ELSE [f EXCEPT !.kind = "json", !.fields = obj]

-----------------------------------------------------------------------------
(* Deployment identifier, line 131 *)

DigitChar == <<"0", "1", "2", "3", "4", "5", "6", "7", "8", "9">>

Digit(n) == DigitChar[n + 1]

\* variant: no zero padding
Pad2Unpadded(n) == IF n < 10 THEN << Digit(n) >> ELSE << Digit(n \div 10), Digit(n % 10) >>

Pad2(n) == << Digit((n \div 10) % 10), Digit(n % 10) >>

Pad3(n) == << Digit((n \div 100) % 10), Digit((n \div 10) % 10), Digit(n % 10) >>

\* the proleptic Gregorian date of a day number
Civil(day) ==
  LET z   == day + 719468
      era == z \div 146097
      doe == z - era * 146097
      yoe == (doe - doe \div 1460 + doe \div 36524 - doe \div 146096) \div 365
      doy == doe - (365 * yoe + yoe \div 4 - yoe \div 100)
      mp  == (5 * doy + 2) \div 153
      m   == IF mp < 10 THEN mp + 3 ELSE mp - 9
  IN [ y |-> yoe + era * 400 + (IF m <= 2 THEN 1 ELSE 0),
       m |-> m,
       d |-> doy - (153 * mp + 2) \div 5 + 1 ]

Abs(n) == IF n < 0 THEN -n ELSE n

\* the year of an ISO string: four digits for the years 0 to 9999, otherwise
\* a sign and six digits
YearPart(y) ==
  IF 0 <= y /\ y <= 9999
  THEN Pad2(y \div 100) \o Pad2(y % 100)
  ELSE << IF y < 0 THEN "-" ELSE "+" >>
         \o Pad2(Abs(y) \div 10000) \o Pad2((Abs(y) \div 100) % 100)
         \o Pad2(Abs(y) % 100)

\* the date part of the ISO string
DatePart(day) ==
  YearPart(Civil(day).y) \o <<"-">> \o Pad2(Civil(day).m) \o <<"-">>
    \o Pad2(Civil(day).d)

\* Date.prototype.toISOString for the instant t
toISOString(t) ==
  DatePart(t.day) \o <<"T">> \o Pad2(t.ms \div 3600000) \o <<":">>
    \o Pad2((t.ms \div 60000) % 60) \o <<":">> \o Pad2((t.ms \div 1000) % 60)
    \o <<".">> \o Pad3(t.ms % 1000) \o <<"Z">>

\* s.replace(/\:/g, "_")
ReplaceColons(s) == [i \in 1..Len(s) |-> IF s[i] = ":" THEN "_" ELSE s[i]]

IndexOf(s, ch) ==
  IF \E i \in 1..Len(s) : s[i] = ch
  THEN CHOOSE i \in 1..Len(s) : s[i] = ch /\ \A j \in 1..(i - 1) : s[j] # ch
  ELSE 0

\* s.replace("T", "") : only the first occurrence is removed
RemoveFirstT(s) ==
  LET i == IndexOf(s, "T")
  IN IF i = 0 THEN s ELSE SubSeq(s, 1, i - 1) \o SubSeq(s, i + 1, Len(s))

\* s.replace(/\..+/, "") : the first dot followed by at least one character,
\* and everything after it
StripFraction(s) ==
  LET i == IndexOf(s, ".")
  IN IF i = 0 \/ i = Len(s) THEN s ELSE SubSeq(s, 1, i - 1)

Stamp(t) == StripFraction(RemoveFirstT(ReplaceColons(toISOString(t))))

\* `/content/checkout/${ctx.timestamp}` as path segments
DestFolder(ts) == <<"content", "checkout", ts>>

\* `${ctx.destFolder}/static`
StaticFolder(dest) == Append(dest, "static")

-----------------------------------------------------------------------------
(* WebDAVHelper.UploadFiles, lines 82-97 *)

\* o.includes(".")
Includes(o, ch) == \E i \in 1..Len(o) : o[i] = ch

HasDot(o) == Includes(o, ".")

\* variant: no filter, every entry is uploaded
EligibleAll(files) == files

\* files.filter((o) => o.includes("."))
Eligible(files) == SelectSeq(files, HasDot)

\* the promise made by uploader(file): readFileSync throwing rejects it
\* before writeFile is called, otherwise writeFile is issued and it is pending
uploader(src, dest, file, readThrows) ==
  [ src    |-> src,
    file   |-> file,
    target |-> [dir |-> dest, name |-> file],
    issued |-> ~readThrows,
    st     |-> IF readThrows THEN "rejected" ELSE "pending",
    err    |-> IF readThrows THEN [kind |-> "read", file |-> file] ELSE NoErr ]

\* the writeFile callback, lines 88-91: reject(err) wins over the resolve()
\* that follows it
writeFileCallback(p, err) ==
  [p EXCEPT !.st  = IF err THEN "rejected" ELSE "fulfilled",
            !.err = IF err THEN [kind |-> "write", file |-> p.file] ELSE NoErr]

\* files.filter(...).map(uploader)
MapUploader(src, dest, files, readFails) ==
  LET E == Eligible(files)
  IN [i \in 1..Len(E) |-> uploader(src, dest, E[i], E[i] \in readFails)]

FirstRejected(ps) ==
  CHOOSE i \in 1..Len(ps) :
    ps[i].st = "rejected" /\ \A j \in 1..(i - 1) : ps[j].st # "rejected"

\* Promise.all over promises some of which may already be settled
PromiseAll(ps) ==
  IF \E i \in 1..Len(ps) : ps[i].st = "rejected"
  THEN [st |-> "rejected", err |-> ps[FirstRejected(ps)].err]
  ELSE IF \A i \in 1..Len(ps) : ps[i].st = "fulfilled"
       THEN [st |-> "fulfilled", err |-> NoErr]
       ELSE [st |-> "pending", err |-> NoErr]

\* Promise.all reacting to promise i settling: it rejects at the first
\* rejection and fulfils when the last promise fulfils
PromiseAllReact(all, ps, i) ==
  IF all.st # "pending" THEN all
  ELSE IF ps[i].st = "rejected" THEN [st |-> "rejected", err |-> ps[i].err]
  ELSE IF \A j \in 1..Len(ps) : ps[j].st = "fulfilled"
       THEN [st |-> "fulfilled", err |-> NoErr]
       ELSE all

\* variant: .then(resolve) with no rejection handler
ThenResolveOnly(outer, all) ==
  IF outer.st # "pending" \/ all.st # "fulfilled" THEN outer
  ELSE [st |-> "fulfilled", err |-> NoErr]

\* Promise.all(promises).finally(resolve).catch(reject), line 95: resolve is
\* called with no argument as soon as Promise.all settles either way; the
\* reject that follows finds the promise already resolved
FinallyResolveCatchReject(outer, all) ==
  IF outer.st # "pending" \/ all.st = "pending" THEN outer
  ELSE [st |-> "fulfilled", err |-> NoErr]

NotStarted == [st |-> "none", err |-> NoErr]

Pending == [st |-> "pending", err |-> NoErr]

BatchSrc(c, b) == IF b = "root" THEN c.distFolder ELSE c.distStaticFolder

BatchDest(c, b) == IF b = "root" THEN c.destFolder ELSE StaticFolder(c.destFolder)

BatchFiles(c, b) == IF b = "root" THEN c.distFiles ELSE c.distStaticFiles

\* one call of UploadFiles for batch b on deploy state S
UploadFiles(S, c, b, readFails) ==
  LET ps  == MapUploader(BatchSrc(c, b), BatchDest(c, b), BatchFiles(c, b), readFails)
      all == PromiseAll(ps)
  IN [S EXCEPT !.uploads[b] = ps,
               !.allP[b]    = all,
               !.batchP[b]  = FinallyResolveCatchReject(Pending, all)]

-----------------------------------------------------------------------------
(* finished, lines 176-190, and the Deploy Checkout task, lines 156-172 *)

\* variant: the banner prints an identifier that was never assigned
finishedUnassigned(S) ==
  [S EXCEPT !.console = @ \cup {"finished"}, !.scriptRef = Undefined]

finished(S) ==
  [S EXCEPT !.console = @ \cup {"finished"}, !.scriptRef = S.timestamp]

\* tasks.run() resolves when the last task resolved: then(finished) runs
DeployResolve(S) ==
  finished([S EXCEPT !.taskP["Deploy Checkout"] = "resolved", !.stage = "Done"])

\* the catch block of the task: reject(ex); Listr stops and run() rejects
DeployReject(S) ==
  [S EXCEPT !.taskP["Deploy Checkout"] = "rejected", !.stage = "Failed"]

\* the task body from the await on batch b onwards
RECURSIVE DeployAwait(_, _, _, _)
DeployAwait(S, c, b, readFails) ==
  IF S.batchP[b].st = "pending" THEN S
  ELSE IF S.batchP[b].st = "rejected" THEN DeployReject(S)
  ELSE IF b = "root"
       THEN DeployAwait(UploadFiles(S, c, "static", readFails["static"]), c,
                        "static", readFails)
       ELSE DeployResolve(S)

DeployTask(S, c, readFails) ==
  DeployAwait(UploadFiles([S EXCEPT !.taskP["Deploy Checkout"] = "running",
                                    !.stage = "Uploading"],
                          c, "root", readFails["root"]),
              c, "root", readFails)

DeployState ==
  [ uploads |-> uploads, allP |-> allP, batchP |-> batchP, stage |-> stage,
    taskP |-> taskP, console |-> console, scriptRef |-> scriptRef,
    timestamp |-> timestamp ]

SetDeployState(S) ==
  /\ uploads' = S.uploads
  /\ allP' = S.allP
  /\ batchP' = S.batchP
  /\ stage' = S.stage
  /\ taskP' = S.taskP
  /\ console' = S.console
  /\ scriptRef' = S.scriptRef

Range(s) == { s[i] : i \in 1..Len(s) }

\* which local reads (fs.readFileSync) throw, for the batches that a turn may
\* start: any subset of the files the batch would read
ReadFailChoices(rootFiles, staticFiles) ==
  { [b \in Batches |-> IF b = "root" THEN r ELSE t] :
      r \in SUBSET Range(Eligible(rootFiles)),
      t \in SUBSET Range(Eligible(staticFiles)) }

-----------------------------------------------------------------------------
(* Initial state: the process has been started, nothing has run *)

InitProcess ==
  /\ env \in Envs
  /\ cfgFile \in CfgFiles
  /\ cfgAtStart = cfgFile
  /\ config = EmptyObj
  /\ fsWrites = 0
  /\ stage = "Idle"
  /\ taskP = [t \in Tasks |-> "waiting"]
  /\ pending = "none"
  /\ buildRuns = 0
  /\ ioErrors = {}
  /\ timestamp = Undefined
  /\ ctx = [ timestamp |-> Undefined, destFolder |-> Undefined,
             distFolder |-> "", distStaticFolder |-> "",
             distFiles |-> Undefined, distStaticFiles |-> Undefined,
             fileCount |-> -1 ]
  /\ mkdirIssued = {}
  /\ remoteDirs = {}
  /\ listIssued = {}
  /\ uploads = [b \in Batches |-> <<>>]
  /\ allP = [b \in Batches |-> NotStarted]
  /\ batchP = [b \in Batches |-> NotStarted]
  /\ console = {}
  /\ scriptRef = Undefined
  /\ cfgReads = 0

Init ==
  /\ InitProcess
  /\ earlier = NoRun
  /\ later = NoRun

-----------------------------------------------------------------------------
(* The script body, lines 31-63 and 192 *)

Halt(msg) ==
  /\ console' = console \cup {msg}
  /\ stage' = "Halted"
  /\ UNCHANGED <<taskP, pending, buildRuns>>

\* an exception nothing catches ends the process with exit code 1
UncaughtException(msg) ==
  /\ console' = console \cup {msg}
  /\ stage' = "Crashed"
  /\ UNCHANGED <<taskP, pending, buildRuns>>

\* variant: the argument check is missing
NoEnvironmentNeverChecked(e) == FALSE

\* !env, line 49
NoEnvironment(e) == e = ""

RunScript ==
  /\ stage = "Idle"
  /\ IF NoEnvironment(env)
     THEN Halt("usage") /\ UNCHANGED <<cfgFile, config, fsWrites, cfgReads, ioErrors>>
     ELSE IF TryThrows(cfgFile)
     THEN \* catch block: `config` was assigned only if require() returned;
          \* both messages are printed before the template is written
          /\ cfgReads' = cfgReads + 1
          /\ config' = IF RequireThrows(cfgFile) THEN config ELSE Required(cfgFile)
          /\ \E outcome \in WriteOutcomes :
               /\ cfgFile' = AfterWriteFileSync(cfgFile, sampleFile, outcome)
               /\ fsWrites' = IF cfgFile' = cfgFile THEN fsWrites ELSE fsWrites + 1
               /\ IF WriteFileSyncThrows(cfgFile, outcome)
                  THEN /\ UncaughtException("missingFile")
                       /\ ioErrors' = ioErrors \cup {"writeTemplate"}
                  ELSE /\ Halt("missingFile")
                       /\ UNCHANGED ioErrors
     ELSE IF MissingCredentials(Required(cfgFile))
     THEN /\ Halt("missingCredentials")
          /\ cfgReads' = cfgReads + 1
          /\ config' = Required(cfgFile)
          /\ UNCHANGED <<cfgFile, fsWrites, ioErrors>>
     ELSE \* tasks.run(): Listr starts the first task, which spawns the build
          /\ cfgReads' = cfgReads + 1
          /\ config' = Required(cfgFile)
          /\ stage' = "Building"
          /\ taskP' = [taskP EXCEPT !["Build Checkout"] = "running"]
          /\ pending' = "build"
          /\ buildRuns' = buildRuns + 1
          /\ UNCHANGED <<cfgFile, fsWrites, console, ioErrors>>
  /\ UNCHANGED <<env, earlier, later, cfgAtStart, timestamp, ctx, mkdirIssued,
                 remoteDirs, listIssued, uploads, allP, batchP, scriptRef>>

-----------------------------------------------------------------------------
(* Build Checkout, lines 112-121, and the start of Pre-Deploy, lines 124-133 *)

Fail(task) ==
  /\ taskP' = [taskP EXCEPT ![task] = "rejected"]
  /\ stage' = "Failed"
  /\ pending' = "none"

\* variant: the catch handler swallows the build error
BuildTaskSwallowsError(ok) == "resolved"

\* execa(...).catch(...) : rejects when the build exits non-zero
BuildTask(ok) == IF ok THEN "resolved" ELSE "rejected"

\* the build process exits; on success Listr starts Pre-Deploy Setup, which
\* derives the identifier and calls MakeDir(ctx.destFolder)
BuildExit ==
  /\ pending = "build"
  /\ \E ok \in BOOLEAN, t \in Times :
       /\ ioErrors' = IF ok THEN ioErrors ELSE ioErrors \cup {"build"}
       /\ IF BuildTask(ok) = "resolved"
          THEN /\ taskP' = [taskP EXCEPT !["Build Checkout"] = "resolved",
                                         !["Pre-Deploy Setup"] = "running"]
               /\ stage' = "ProvisioningTarget"
               /\ timestamp' = Stamp(t)
               /\ ctx' = [ctx EXCEPT !.timestamp = Stamp(t),
                                     !.destFolder = DestFolder(Stamp(t))]
               /\ mkdirIssued' = mkdirIssued \cup {DestFolder(Stamp(t))}
               /\ pending' = "mkdirDest"
          ELSE /\ Fail("Build Checkout")
               /\ UNCHANGED <<timestamp, ctx, mkdirIssued>>
  /\ UNCHANGED <<env, earlier, later, cfgReads, cfgFile, cfgAtStart, config, fsWrites, buildRuns,
                 remoteDirs, listIssued, uploads, allP, batchP, console,
                 scriptRef>>

-----------------------------------------------------------------------------
(* WebDAVHelper.MakeDir, lines 73-81, awaited at lines 133-134 *)

MkdirPath == IF pending = "mkdirDest" THEN ctx.destFolder ELSE StaticFolder(ctx.destFolder)

\* what Pre-Deploy does once MakeDir(path) resolved
AfterMakeDir ==
  IF pending = "mkdirDest"
  THEN /\ mkdirIssued' = mkdirIssued \cup {StaticFolder(ctx.destFolder)}
       /\ pending' = "mkdirStatic"
       /\ UNCHANGED <<ctx, listIssued>>
  ELSE /\ ctx' = [ctx EXCEPT !.distFolder = "dist", !.distStaticFolder = "dist/static"]
       /\ listIssued' = listIssued \cup {"dist"}
       /\ pending' = "listDist"
       /\ UNCHANGED mkdirIssued

\* variant: the callback ignores err
MakeDirIgnoresError(err) == "resolved"

\* the mkdir callback: if (err) return reject(err); resolve(true)
MakeDir(err) == IF err THEN "rejected" ELSE "resolved"

MkdirCallback ==
  /\ pending \in {"mkdirDest", "mkdirStatic"}
  /\ \E err \in BOOLEAN :
       /\ ioErrors' = IF err THEN ioErrors \cup {pending} ELSE ioErrors
       /\ remoteDirs' = IF err THEN remoteDirs ELSE remoteDirs \cup {MkdirPath}
       /\ IF MakeDir(err) = "rejected"
          THEN /\ Fail("Pre-Deploy Setup")
               /\ UNCHANGED <<ctx, mkdirIssued, listIssued>>
          ELSE /\ AfterMakeDir
               /\ UNCHANGED <<taskP, stage>>
  /\ UNCHANGED <<env, earlier, later, cfgReads, cfgFile, cfgAtStart, config, fsWrites, buildRuns,
                 timestamp, uploads, allP, batchP, console, scriptRef>>

-----------------------------------------------------------------------------
(* NodeHelper.ListFiles, lines 101-108, awaited at lines 142-143 *)

\* variant: the entries are counted without the filter
FileCountUnfiltered(a, b) == Len(a \o b)

\* [].concat(a, b).filter((o) => o.includes(".")).length
FileCount(a, b) == Len(Eligible(a \o b))

\* variant: the callback ignores err
ListFilesIgnoresError(err) == "resolved"

\* the readdir callback: if (err) return reject(err); resolve(files)
ListFiles(err) == IF err THEN "rejected" ELSE "resolved"

ReaddirCallback ==
  /\ pending \in {"listDist", "listStatic"}
  /\ \E err \in BOOLEAN, files \in Listings :
     \E readFails \in IF pending = "listStatic" /\ ~err
                      THEN ReadFailChoices(ctx.distFiles, files)
                      ELSE ReadFailChoices(<<>>, <<>>) :
       /\ ioErrors' = IF err THEN ioErrors \cup {pending} ELSE ioErrors
       /\ IF ListFiles(err) = "rejected"
          THEN /\ Fail("Pre-Deploy Setup")
               /\ UNCHANGED <<ctx, listIssued, uploads, allP, batchP, console, scriptRef>>
          ELSE IF pending = "listDist"
          THEN /\ ctx' = [ctx EXCEPT !.distFiles = files]
               /\ listIssued' = listIssued \cup {ctx.distStaticFolder}
               /\ pending' = "listStatic"
               /\ UNCHANGED <<taskP, stage, uploads, allP, batchP, console, scriptRef>>
          ELSE \* Pre-Deploy resolves and Listr starts Deploy Checkout
               /\ ctx' = [ctx EXCEPT !.distStaticFiles = files,
                                     !.fileCount = FileCount(ctx.distFiles, files)]
               /\ pending' = "none"
               /\ UNCHANGED listIssued
               /\ SetDeployState(
                    DeployTask([DeployState EXCEPT !.taskP["Pre-Deploy Setup"] = "resolved"],
                               ctx', readFails))
  /\ UNCHANGED <<env, earlier, later, cfgReads, cfgFile, cfgAtStart, config, fsWrites, buildRuns,
                 timestamp, mkdirIssued, remoteDirs>>

-----------------------------------------------------------------------------
(* completion of one wfs.writeFile, lines 88-91, and what follows from it *)

WriteFileCallback ==
  \E b \in Batches, i \in 1..MaxFiles, err \in BOOLEAN :
    \E readFails \in IF b = "root" /\ batchP[b].st = "pending"
                     THEN ReadFailChoices(<<>>, ctx.distStaticFiles)
                     ELSE ReadFailChoices(<<>>, <<>>) :
      /\ i <= Len(uploads[b])
      /\ uploads[b][i].st = "pending"
      /\ LET ps  == [uploads[b] EXCEPT ![i] = writeFileCallback(@, err)]
             all == PromiseAllReact(allP[b], ps, i)
             S   == [DeployState EXCEPT
                       !.uploads[b] = ps,
                       !.allP[b]    = all,
                       !.batchP[b]  = FinallyResolveCatchReject(@, all)]
         IN SetDeployState(
              IF batchP[b].st = "pending" THEN DeployAwait(S, ctx, b, readFails) ELSE S)
      /\ UNCHANGED <<env, earlier, later, cfgReads, cfgFile, cfgAtStart, config, fsWrites, pending,
                     buildRuns, ioErrors, timestamp, ctx, mkdirIssued,
                     remoteDirs, listIssued>>

-----------------------------------------------------------------------------

Next ==
  \/ RunScript
  \/ BuildExit
  \/ MkdirCallback
  \/ ReaddirCallback
  \/ WriteFileCallback

Spec == Init /\ [][Next]_vars

\* every external operation completes: while the script body has not run or
\* the callback of a build, mkdir, readdir or writeFile is outstanding, one
\* of them is eventually delivered
\* how a started pipeline goes on does not depend on where require() found
\* the configuration: the runs considered are those in which the
\* configuration, if any is loaded, comes from the file itself
InitFair == Init /\ cfgFile.alt = NoModule

FairSpec == InitFair /\ [][Next]_vars /\ WF_vars(Next)

-----------------------------------------------------------------------------
(* The identifiers of two runs, line 131: each run's Pre-Deploy reads the   *)
(* clock and derives its identifier from it                                 *)

processVars ==
  <<env, cfgFile, cfgAtStart, config, fsWrites, stage, taskP, pending,
    buildRuns, ioErrors, timestamp, ctx, mkdirIssued, remoteDirs, listIssued,
    uploads, allP, batchP, console, scriptRef, cfgReads>>

Reading(t) == [read |-> FALSE, t |-> t, id |-> Undefined]

InitClock ==
  /\ InitProcess
  /\ env = ""
  /\ cfgFile.kind = "absent"
  /\ cfgFile.alt = NoModule
  /\ earlier \in { Reading(t) : t \in Instants }
  /\ later \in { Reading(t) : t \in Instants }

PreDeployEarlier ==
  /\ ~earlier.read
  /\ earlier' = [earlier EXCEPT !.read = TRUE, !.id = Stamp(earlier.t)]
  /\ UNCHANGED <<processVars, later>>

PreDeployLater ==
  /\ earlier.read
  /\ ~later.read
  /\ later' = [later EXCEPT !.read = TRUE, !.id = Stamp(later.t)]
  /\ UNCHANGED <<processVars, earlier>>

NextClock ==
  \/ PreDeployEarlier
  \/ PreDeployLater

ClockSpec == InitClock /\ [][NextClock]_vars

-----------------------------------------------------------------------------
(* Vocabulary of the properties *)

Settled(p) == p.st \in {"fulfilled", "rejected"}

Failed(b) == { i \in 1..Len(uploads[b]) : uploads[b][i].st = "rejected" }

Outstanding(b) == { i \in 1..Len(uploads[b]) : uploads[b][i].st = "pending" }

WritesIssued(b) == { i \in 1..Len(uploads[b]) : uploads[b][i].issued }

NoRemoteOperation ==
  /\ mkdirIssued = {}
  /\ remoteDirs = {}
  /\ \A b \in Batches : uploads[b] = <<>> /\ batchP[b].st = "none"

-----------------------------------------------------------------------------
(* C1 .. C3 : failure of a per-file upload *)

\* C1: whenever the promise returned by UploadFiles has settled and an upload
\* of its batch has failed (writeFile error or local read throwing), it is
\* rejected and carries the error of one of the failed uploads.
C1_FailedUploadRejectsBatch ==
  \A b \in Batches :
    (Settled(batchP[b]) /\ Failed(b) # {}) =>
      /\ batchP[b].st = "rejected"
      /\ \E i \in Failed(b) : batchP[b].err = uploads[b][i].err

\* C2: the promise returned by UploadFiles is never settled while an upload
\* it started is still outstanding.
C2_NoSettleWhileOutstanding ==
  \A b \in Batches : Settled(batchP[b]) => Outstanding(b) = {}

SomeError ==
  \/ ioErrors # {}
  \/ \E b \in Batches : Failed(b) # {}

\* C3: once any stage has hit an error (build exit non-zero, mkdir or listing
\* failure, a file-upload failure) the pipeline does not reach Done and the
\* success banner is not printed.
C3_ErrorNeverDoneNoBanner ==
  SomeError => (stage # "Done" /\ "finished" \notin console)

-----------------------------------------------------------------------------
(* C4 .. C8 : order of the stages and the contents of a batch *)

\* C4: whenever a writeFile has been issued, MakeDir has succeeded for both
\* the destination folder and its static folder, and the writeFile targets
\* the one of these two folders that belongs to its batch.
C4_UploadsOnlyIntoCreatedFolders ==
  \A b \in Batches : \A i \in WritesIssued(b) :
    /\ DestFolder(timestamp) \in remoteDirs
    /\ Append(DestFolder(timestamp), "static") \in remoteDirs
    /\ uploads[b][i].target.dir \in remoteDirs
    /\ uploads[b][i].target.dir =
         IF b = "root" THEN DestFolder(timestamp)
         ELSE Append(DestFolder(timestamp), "static")

C4_Witness ==
  WritesIssued("root") # {} /\ WritesIssued("static") # {}

\* C5: once the build has exited non-zero, no remote mkdir has been issued,
\* no local directory has been listed, no upload has been made and the
\* banner has not been printed.
C5_BuildFailureStopsPipeline ==
  "build" \in ioErrors =>
    /\ mkdirIssued = {}
    /\ listIssued = {}
    /\ \A b \in Batches : uploads[b] = <<>> /\ batchP[b].st = "none"
    /\ "finished" \notin console
    /\ stage = "Failed"

C5_Witness == "build" \in ioErrors /\ buildRuns = 1

ProvisioningSteps == <<"mkdirDest", "mkdirStatic", "listDist", "listStatic">>

StepIssued(k) ==
  IF k = 1 THEN DestFolder(timestamp) \in mkdirIssued
  ELSE IF k = 2 THEN Append(DestFolder(timestamp), "static") \in mkdirIssued
  ELSE IF k = 3 THEN "dist" \in listIssued
  ELSE "dist/static" \in listIssued

\* C6: once one of the four provisioning steps (mkdir destination, mkdir
\* destination/static, list dist, list dist/static) has failed, the
\* Pre-Deploy task is rejected, no later provisioning step has been issued,
\* no upload has been made and the pipeline is Failed.
C6_ProvisioningFailureAborts ==
  \A k \in 1..Len(ProvisioningSteps) :
    ProvisioningSteps[k] \in ioErrors =>
      /\ taskP["Pre-Deploy Setup"] = "rejected"
      /\ stage = "Failed"
      /\ \A j \in 1..Len(ProvisioningSteps) : StepIssued(j) <=> j <= k
      /\ \A b \in Batches : uploads[b] = <<>> /\ batchP[b].st = "none"
      /\ taskP["Deploy Checkout"] = "waiting"
      /\ "finished" \notin console

C6_Witness == "listDist" \in ioErrors /\ Cardinality(remoteDirs) = 2

\* C7: no upload of the static batch exists while an upload of the root batch
\* is still outstanding.
C7_StaticBatchAfterRootBatch ==
  Len(uploads["static"]) > 0 => Outstanding("root") = {}

HasExtension(n) == \E k \in 1..Len(n) : n[k] = "."

Listing(b) == IF b = "root" THEN ctx.distFiles ELSE ctx.distStaticFiles

Folder(b) ==
  IF b = "root" THEN ctx.destFolder ELSE Append(ctx.destFolder, "static")

WithExtension(files) == { k \in 1..Len(files) : HasExtension(files[k]) }

\* C8: in a started batch there is exactly one upload for every listed entry
\* with an extension, each to <folder of the batch>/<same name>, none for an
\* entry without one, whatever the outcome of the other uploads; writeFile
\* has been issued for each of them except those whose local read threw.
C8_OneUploadPerFileWithExtension ==
  \A b \in Batches : batchP[b].st # "none" =>
    /\ Len(uploads[b]) = Cardinality(WithExtension(Listing(b)))
    /\ \A k \in 1..Len(Listing(b)) :
         Cardinality({ i \in 1..Len(uploads[b]) : uploads[b][i].file = Listing(b)[k] })
           = IF HasExtension(Listing(b)[k]) THEN 1 ELSE 0
    /\ \A i \in 1..Len(uploads[b]) :
         /\ uploads[b][i].target = [dir |-> Folder(b), name |-> uploads[b][i].file]
         /\ uploads[b][i].issued <=> uploads[b][i].err.kind # "read"

\* a batch of two files with an extension and one entry without, in which
\* one upload failed and the other was issued all the same
C8_Witness ==
  \E b \in Batches :
    /\ Cardinality(WithExtension(Listing(b))) = 2
    /\ Len(Listing(b)) = 3
    /\ \E i, j \in 1..Len(uploads[b]) :
         i < j /\ uploads[b][i].st = "rejected" /\ uploads[b][j].issued

-----------------------------------------------------------------------------
(* C9, C10 : configuration loading *)

Started == stage # "Idle" /\ env # ""

\* the file is present and parsable, and a credential field is empty or
\* absent (a file holding null has no field at all)
Incomplete(f) ==
  \/ f.kind = "null"
  \/ f.kind = "json" /\ \E k \in Keys : Falsy(f.fields, k)

\* C9: when the configuration file was missing, the script has written a file
\* holding exactly the three keys, each with the empty string, and has halted
\* without starting the build, a remote mkdir or an upload.
C9_MissingFileWritesTemplateAndHalts ==
  (Started /\ cfgAtStart.kind = "absent") =>
    /\ cfgFile.kind = "json"
    /\ DOMAIN cfgFile.fields = Keys
    /\ \A k \in Keys : cfgFile.fields[k] = ""
    /\ fsWrites = 1
    /\ stage = "Halted"
    /\ buildRuns = 0
    /\ NoRemoteOperation

Reported == console \cap {"missingFile", "missingCredentials"} # {}

\* C10: when the configuration is missing or incomplete, the script reports
\* it and halts, no local file is written or changed, no build is started and
\* no remote operation is issued.
C10_HaltsWithoutSideEffects ==
  (Started /\ (cfgAtStart.kind = "absent" \/ Incomplete(cfgAtStart))) =>
    /\ Reported
    /\ stage = "Halted"
    /\ fsWrites = 0
    /\ cfgFile = cfgAtStart
    /\ buildRuns = 0
    /\ NoRemoteOperation

-----------------------------------------------------------------------------
(* C11 : when the build is started *)

\* the configuration loaded for the path as it was when the process started:
\* the content of the file, or what the module found in its place exports;
\* nothing when there is nothing to load or loading fails
Loaded(f) ==
  CASE f.kind = "json" -> f.fields
    [] f.kind = "null" -> Null
    [] f.kind \in {"absent", "directory"} -> f.alt
    [] OTHER -> NoModule

\* all three credential fields are there and none is the empty string
AllThreeNonEmpty(v) ==
  /\ Keys \subseteq DOMAIN v
  /\ \A k \in Keys : v[k] # ""

\* C11: once the script body has run, the build has been started if and only
\* if an environment argument was given and the loaded configuration has all
\* three credential fields non-empty, and the script then holds that
\* configuration; with no argument the script has halted without reading or
\* writing the configuration file and without starting the build.
C11_BuildStartedIffConfigured ==
  /\ stage = "Idle" => buildRuns = 0
  /\ stage # "Idle" =>
       /\ buildRuns > 0 <=> (env # "" /\ AllThreeNonEmpty(Loaded(cfgAtStart)))
       /\ buildRuns > 0 => (config = Loaded(cfgAtStart) /\ AllThreeNonEmpty(config))
       /\ env = "" =>
            /\ stage = "Halted"
            /\ "usage" \in console
            /\ cfgReads = 0
            /\ fsWrites = 0
            /\ cfgFile = cfgAtStart
            /\ buildRuns = 0

\* the build was started with credentials loaded from a module found in place
\* of a missing file
C11_Witness ==
  /\ env # ""
  /\ buildRuns = 1
  /\ cfgAtStart.kind = "absent"
  /\ AllThreeNonEmpty(config)

-----------------------------------------------------------------------------
(* C12 : order of the identifiers of two runs *)

\* UTF-16 code units of the characters of an identifier
CharCode(c) ==
  CASE c = "+" -> 43
    [] c = "-" -> 45
    [] c = "_" -> 95
    [] OTHER -> 47 + (CHOOSE k \in 1..10 : DigitChar[k] = c)

\* a < b for JavaScript strings
LexLess(a, b) ==
  \E k \in 1..(Len(b)) :
    /\ \A j \in 1..(k - 1) : j <= Len(a) /\ a[j] = b[j]
    /\ \/ k = Len(a) + 1
       \/ k <= Len(a) /\ CharCode(a[k]) < CharCode(b[k])

Before(t, u) == t.day < u.day \/ (t.day = u.day /\ t.ms < u.ms)

SameSecond(t, u) == t.day = u.day /\ t.ms \div 1000 = u.ms \div 1000

BothRead == earlier.read /\ later.read

\* C12 as stated: when the clock advanced between the two readings, the
\* identifier of the later run is strictly greater and the destination
\* folders differ.
C12_LaterClockGreaterId ==
  (BothRead /\ Before(earlier.t, later.t)) =>
    /\ LexLess(earlier.id, later.id)
    /\ DestFolder(earlier.id) # DestFolder(later.id)

FourDigitYear(t) == t.day >= -719528 /\ t.day <= EndOf9999

\* C12 amended: when the second reading is in a later second than the first
\* and both are in the years 0000 to 9999, the identifier of the later run is
\* strictly greater and the destination folders differ; two readings within
\* the same second give the same identifier.
C12_LaterSecondGreaterId ==
  BothRead =>
    /\ ( Before(earlier.t, later.t) /\ ~SameSecond(earlier.t, later.t)
         /\ FourDigitYear(earlier.t) /\ FourDigitYear(later.t) ) =>
         ( LexLess(earlier.id, later.id)
           /\ DestFolder(earlier.id) # DestFolder(later.id) )
    /\ SameSecond(earlier.t, later.t) => earlier.id = later.id

C12_Witness ==
  /\ BothRead
  /\ earlier.t = At(EndOf2020, 86399999)
  /\ later.t = At(EndOf2020 + 1, 0)
  /\ LexLess(earlier.id, later.id)

-----------------------------------------------------------------------------
(* C13 : termination *)

Running == stage \in {"Building", "ProvisioningTarget", "Uploading"}

Terminal == stage \in {"Done", "Failed"}

\* C13: when every external operation completes, a started pipeline
\* eventually reaches Done or Failed with no upload batch left unsettled,
\* and a batch with no eligible file is settled as soon as it is started.
C13_StartedPipelineTerminates ==
  /\ (Running \/ \E b \in Batches : batchP[b].st = "pending")
       ~> (Terminal /\ \A b \in Batches : batchP[b].st # "pending")
  /\ [](\A b \in Batches :
          (batchP[b].st # "none" /\ Len(uploads[b]) = 0) => Settled(batchP[b]))

\* the pipeline is Done after a batch whose listing had entries, none of
\* them eligible
C13_Witness ==
  /\ stage = "Done"
  /\ \E b \in Batches :
       /\ Len(Listing(b)) > 0
       /\ Len(uploads[b]) = 0
       /\ Settled(batchP[b])
  /\ \E b \in Batches : \E i \in 1..Len(uploads[b]) : uploads[b][i].st = "rejected"

-----------------------------------------------------------------------------
(* C14 .. C16 *)

\* C14: a configuration file that existed when the process started (whether
\* unparsable, holding null, incomplete or complete) is never modified, and
\* no local file is written.
C14_ExistingFileNeverModified ==
  cfgAtStart.kind # "absent" => (cfgFile = cfgAtStart /\ fsWrites = 0)

\* C15: the module-level timestamp and ctx.timestamp never differ, and when
\* the banner has been printed the identifier in its script reference is
\* defined, is that timestamp, names the remote folder this run created, and
\* every upload of the run went into that folder or its static folder.
C15_BannerNamesTheDeployedFolder ==
  /\ timestamp = ctx.timestamp
  /\ "finished" \in console =>
       /\ scriptRef # Undefined
       /\ scriptRef = timestamp
       /\ <<"content", "checkout", scriptRef>> \in remoteDirs
       /\ <<"content", "checkout", scriptRef, "static">> \in remoteDirs
       /\ \A b \in Batches : \A i \in 1..Len(uploads[b]) :
            uploads[b][i].target.dir[3] = scriptRef

C15_Witness ==
  /\ "finished" \in console
  /\ WritesIssued("root") # {}
  /\ WritesIssued("static") # {}
  /\ \A b \in Batches : Failed(b) = {} /\ Outstanding(b) = {}

ReadThrew(b) == { i \in 1..Len(uploads[b]) : uploads[b][i].err.kind = "read" }

\* C16: once the Deploy stage has made both UploadFiles calls, ctx.fileCount
\* is the number of uploads the two calls made together, and the number of
\* writeFile calls is that count less the uploads whose local read threw.
C16_FileCountIsNumberOfUploads ==
  (batchP["root"].st # "none" /\ batchP["static"].st # "none") =>
    /\ ctx.fileCount = Len(uploads["root"]) + Len(uploads["static"])
    /\ Cardinality(WritesIssued("root")) + Cardinality(WritesIssued("static"))
         = ctx.fileCount - Cardinality(ReadThrew("root"))
             - Cardinality(ReadThrew("static"))

\* both listings hold eligible files and entries that are skipped
C16_Witness ==
  /\ batchP["static"].st # "none"
  /\ Len(uploads["root"]) = 2
  /\ Len(ctx.distFiles) = 3
  /\ Len(uploads["static"]) = 1
  /\ Len(ctx.distStaticFiles) = 2
  /\ ctx.fileCount = 3

====
